---- MODULE Spec2Model ----
(***************************************************************************)
(* Model of app.py, the Open-Meteo interactive weather dashboard.          *)
(*                                                                         *)
(* One Streamlit script run (a "render pass") is the sequence              *)
(*   st_folium (map)  ->  get_weather (when a click exists)  ->  display.  *)
(* The process keeps one piece of state across passes: the st.cache_data   *)
(* memo of get_weather, keyed by the exact (lat, lon) arguments.           *)
(*                                                                         *)
(* Line 6 of app.py, "import-module", is not Python; the model describes   *)
(* the script with that line removed.                                      *)
(*                                                                         *)
(* Library behaviour the script relies on and the model states:            *)
(*   - st.cache_data stores whatever a call returns, the sentinel          *)
(*     included, together with the st elements the call showed, and shows  *)
(*     them again on a hit; no ttl or max_entries is configured.           *)
(*   - response.json() raises requests.exceptions.JSONDecodeError, which   *)
(*     is a RequestException since requests 2.27 and a plain ValueError    *)
(*     before; the installed release is not pinned by the repository.      *)
(*   - DataFrame.rename keeps columns that are not keys of the mapping;    *)
(*     set_index keeps the row order.                                      *)
(*                                                                         *)
(* Encodings.                                                              *)
(*   - A degree value is an integer number of 1e-5 degrees, so that the    *)
(*     ".4f" formatting of the status line is a real rounding.             *)
(*   - An ISO-8601 timestamp "....-DDTHH:00" is the integer DD*100 + HH;   *)
(*     pd.to_datetime turns it into an hour count or raises.               *)
(*   - None is the record [kind |-> "None"].                               *)
(***************************************************************************)
EXTENDS Integers, Sequences, FiniteSets, TLC

VARIABLES
    pc,          \* position of the script run: "map", "fetch", "render", "done"
    map_data,    \* what st_folium returned in this pass
    page,        \* the elements shown by this pass, in order
    hourly_df,   \* first component of get_weather's result in this pass
    daily_df,    \* second component of get_weather's result in this pass
    cache,       \* the st.cache_data memo of get_weather
    response,    \* outcome of the requests.get made in this pass, if any
    requests,    \* number of outbound HTTP requests of the process so far
    passRequests,\* number of outbound HTTP requests of this pass
    clicked,     \* the distinct coordinates clicked so far
    firstResult, \* per coordinate, the result of the first get_weather call
    jsonErrorIsRequestException
                 \* whether the installed requests raises a RequestException
                 \* subclass from response.json() (requests >= 2.27) or a
                 \* plain ValueError (older releases)

vars == <<pc, map_data, page, hourly_df, daily_df, cache, response, requests,
          passRequests, clicked, firstResult, jsonErrorIsRequestException>>

None == [kind |-> "None"]

----------------------------------------------------------------------------
(* Bounds *)

\* number of distinct points of the map the user may click
NumCoords == 2
\* longest 'time' column of a response
MaxRows == 2

----------------------------------------------------------------------------
(* Inputs: clicks *)

CoordList ==
    << [lat |-> 3756650, lng |-> 12697800],
       [lat |-> 3756654, lng |-> 12697803],
       [lat |-> -3392477, lng |-> 15120926],
       [lat |-> 5150735, lng |-> -12776] >>

Coords == { CoordList[i] : i \in 1..NumCoords }

----------------------------------------------------------------------------
(* get_weather: the request *)

\* the 'hourly' query parameter, split at its commas
HourlyFields ==
    << "temperature_2m", "relative_humidity_2m", "apparent_temperature",
       "precipitation_probability", "precipitation", "rain", "snowfall",
       "weather_code", "wind_speed_10m", "wind_direction_10m", "uv_index" >>

\* the 'daily' query parameter, split at its commas
DailyFields ==
    << "weather_code", "temperature_2m_max", "temperature_2m_min",
       "precipitation_sum", "rain_sum", "snowfall_sum",
       "precipitation_probability_max", "wind_speed_10m_max", "uv_index_max" >>

\* the entries of the dict literal given to hourly_df.rename, in order
HourlyRename ==
    << <<"temperature_2m", "Temp (°C)">>,
       <<"relative_humidity_2m", "Humidity (%)">>,
       <<"apparent_temperature", "Apparent Temp (°C)">>,
       <<"precipitation_probability", "Precip. Prob. (%)">>,
       <<"precipitation", "Precip. (mm)">>,
       <<"rain", "Rain (mm)">>,
       <<"snowfall", "Snow (cm)">>,
       <<"weather_code", "Weather Code">>,
       <<"wind_speed_10m", "Wind Speed (km/h)">>,
       <<"wind_direction_10m", "Wind Dir (°)">>,
       <<"uv_index", "UV Index">> >>

\* the entries of the dict literal given to daily_df.rename, in order
DailyRename ==
    << <<"temperature_2m_max", "Max Temp (°C)">>,
       <<"temperature_2m_min", "Min Temp (°C)">>,
       <<"weather_code", "Weather Code">>,
       <<"precipitation_sum", "Precip. Sum (mm)">>,
       <<"rain_sum", "Rain Sum (mm)">>,
       <<"snowfall_sum", "Snow Sum (cm)">>,
       <<"precipitation_probability_max", "Max Precip. Prob. (%)">>,
       <<"wind_speed_10m_max", "Max Wind (km/h)">>,
       <<"uv_index_max", "Max UV Index">> >>

Range(s) == { s[i] : i \in DOMAIN s }

----------------------------------------------------------------------------
(* get_weather: reshaping a response *)

\* The entries of a rename dict literal that have key f.
Entries(mapping, f) == { i \in DOMAIN mapping : mapping[i][1] = f }

\* DataFrame.rename(columns=mapping) on one column name: the label of the
\* (last) dict entry with that key, and the name itself when there is none.
Rename(mapping, f) ==
    IF Entries(mapping, f) = {}
    THEN f
    ELSE mapping[CHOOSE i \in Entries(mapping, f) :
                    \A j \in Entries(mapping, f) : j <= i][2]

\* pd.to_datetime on one timestamp: defined for a day 1..31 and an hour 0..23
Parsable(ts) == (ts \div 100) \in 1..31 /\ (ts % 100) \in 0..23

to_datetime(ts) == ((ts \div 100) - 1) * 24 + (ts % 100)

\* pd.DataFrame(dict of columns) raises ValueError unless all columns have
\* one length.
SameLength(tbl) == \A f, g \in DOMAIN tbl : Len(tbl[f]) = Len(tbl[g])

\* variant: the last row is lost (an off-by-one over the rows)
ReshapeTruncating(tbl, mapping) ==
    IF ~SameLength(tbl) THEN [raised |-> TRUE, exc |-> "ValueError"]
    ELSE IF "time" \notin DOMAIN tbl THEN [raised |-> TRUE, exc |-> "KeyError"]
    ELSE IF \E i \in DOMAIN tbl["time"] : ~Parsable(tbl["time"][i])
         THEN [raised |-> TRUE, exc |-> "DateParseError"]
    ELSE [raised |-> FALSE,
          df |-> [index |-> [i \in 1..(Len(tbl["time"]) - 1) |-> to_datetime(tbl["time"][i])],
                  cols  |-> [l \in { Rename(mapping, f) : f \in DOMAIN tbl \ {"time"} } |->
                               LET col == tbl[CHOOSE f \in DOMAIN tbl \ {"time"} :
                                                 Rename(mapping, f) = l]
                               IN  [i \in 1..(Len(col) - 1) |-> col[i]]]]]

\* variant: only the columns of the rename map are kept
ReshapeMappedOnly(tbl, mapping) ==
    IF ~SameLength(tbl) THEN [raised |-> TRUE, exc |-> "ValueError"]
    ELSE IF "time" \notin DOMAIN tbl THEN [raised |-> TRUE, exc |-> "KeyError"]
    ELSE IF \E i \in DOMAIN tbl["time"] : ~Parsable(tbl["time"][i])
         THEN [raised |-> TRUE, exc |-> "DateParseError"]
    ELSE [raised |-> FALSE,
          df |-> [index |-> [i \in DOMAIN tbl["time"] |-> to_datetime(tbl["time"][i])],
                  cols  |-> [l \in { Rename(mapping, f) :
                                       f \in { g \in DOMAIN tbl \ {"time"} :
                                                 Entries(mapping, g) # {} } } |->
                               tbl[CHOOSE f \in DOMAIN tbl \ {"time"} :
                                      Rename(mapping, f) = l]]]]

\* The four statements  pd.DataFrame(..), df['time'] = pd.to_datetime(..),
\* df.rename(columns=..), df.set_index('time')  on one column-oriented
\* object of the response.  [raised |-> TRUE] stands for any exception.
Reshape(tbl, mapping) ==
    IF ~SameLength(tbl) THEN [raised |-> TRUE, exc |-> "ValueError"]
    ELSE IF "time" \notin DOMAIN tbl THEN [raised |-> TRUE, exc |-> "KeyError"]
    ELSE IF \E i \in DOMAIN tbl["time"] : ~Parsable(tbl["time"][i])
         THEN [raised |-> TRUE, exc |-> "DateParseError"]
    ELSE [raised |-> FALSE,
          df |-> [index |-> [i \in DOMAIN tbl["time"] |-> to_datetime(tbl["time"][i])],
                  cols  |-> [l \in { Rename(mapping, f) : f \in DOMAIN tbl \ {"time"} } |->
                               tbl[CHOOSE f \in DOMAIN tbl \ {"time"} :
                                      Rename(mapping, f) = l]]]]

\* variant: only server errors are treated as bad statuses
raise_for_status_5xx(status_code) == status_code >= 500 /\ status_code < 600

\* response.raise_for_status(): HTTPError for a 4xx or 5xx status
raise_for_status(status_code) == status_code >= 400 /\ status_code < 600

\* The body of the try block: the exception it raises, or the value it returns.
TryBlock(resp, jsonErrIsReqExc) ==
    IF resp.raised
        THEN [exc |-> "RequestException", detail |-> "ConnectionError", value |-> <<None, None>>]
    ELSE IF raise_for_status(resp.status_code)
        THEN [exc |-> "RequestException", detail |-> "HTTPError", value |-> <<None, None>>]
    ELSE IF ~resp.body.json
        THEN [exc |-> IF jsonErrIsReqExc THEN "RequestException" ELSE "Exception",
              detail |-> "JSONDecodeError", value |-> <<None, None>>]
    ELSE IF "hourly" \notin DOMAIN resp.body.data
        THEN [exc |-> "Exception", detail |-> "KeyError", value |-> <<None, None>>]
    ELSE
    LET hourly == Reshape(resp.body.data["hourly"], HourlyRename) IN
    IF hourly.raised
        THEN [exc |-> "Exception", detail |-> hourly.exc, value |-> <<None, None>>]
    ELSE IF "daily" \notin DOMAIN resp.body.data
        THEN [exc |-> "Exception", detail |-> "KeyError", value |-> <<None, None>>]
    ELSE
    LET daily == Reshape(resp.body.data["daily"], DailyRename) IN
    IF daily.raised
        THEN [exc |-> "Exception", detail |-> daily.exc, value |-> <<None, None>>]
    ELSE [exc |-> "none", detail |-> "none", value |-> << hourly.df, daily.df >>]

\* st.error of the first except clause
FetchError(detail) ==
    [kind |-> "error", text |-> "Error fetching data from API", detail |-> detail]

\* st.error of the second except clause
ProcessingError(detail) ==
    [kind |-> "error", text |-> "An error occurred while processing data",
     detail |-> detail]

\* variant: the first except clause returns the sentinel without st.error
get_weather_quiet(resp, jsonErrIsReqExc) ==
    LET t == TryBlock(resp, jsonErrIsReqExc) IN
    IF t.exc = "RequestException"
        THEN [value |-> <<None, None>>, messages |-> << >>]
    ELSE IF t.exc = "Exception"
        THEN [value |-> <<None, None>>, messages |-> << ProcessingError(t.detail) >>]
    ELSE [value |-> t.value, messages |-> << >>]

\* The undecorated get_weather on the outcome of its requests.get: the value
\* it returns and the elements it shows.
get_weather(resp, jsonErrIsReqExc) ==
    LET t == TryBlock(resp, jsonErrIsReqExc) IN
    IF t.exc = "RequestException"
        THEN [value |-> <<None, None>>, messages |-> << FetchError(t.detail) >>]
    ELSE IF t.exc = "Exception"
        THEN [value |-> <<None, None>>, messages |-> << ProcessingError(t.detail) >>]
    ELSE [value |-> t.value, messages |-> << >>]

----------------------------------------------------------------------------
(* Inputs: what the forecast API may answer *)

\* timestamps a 'time' column may hold: 01T00:00, 01T01:00, and 01T25:00,
\* which is no time of day
Stamps == { 100, 101, 125 }

\* 'time' columns: empty, of one row, and of MaxRows rows
TimeSeqs == UNION { [1..k -> Stamps] : k \in {0, 1, MaxRows} }

Pos(fieldSeq, f) == CHOOSE i \in DOMAIN fieldSeq : fieldSeq[i] = f

\* a column-oriented object with one column per requested field, aligned
\* with the 'time' column; the cell of field k at row i is 10*k + i
Table(fieldSeq, times) ==
    [f \in Range(fieldSeq) \cup {"time"} |->
        IF f = "time" THEN times
        ELSE [i \in DOMAIN times |-> 10 * Pos(fieldSeq, f) + i]]

Without(tbl, f) == [g \in DOMAIN tbl \ {f} |-> tbl[g]]

WithColumn(tbl, f) ==
    [g \in DOMAIN tbl \cup {f} |->
        IF g = f THEN [i \in DOMAIN tbl["time"] |-> 0] ELSE tbl[g]]

Shortened(tbl, f) == [tbl EXCEPT ![f] = Tail(@)]

HourlyTables ==
    { Table(HourlyFields, t) : t \in TimeSeqs }
    \cup { WithColumn(Table(HourlyFields, <<100, 101>>), "visibility"),
           Without(Table(HourlyFields, <<100, 101>>), "uv_index"),
           Without(Table(HourlyFields, <<100, 101>>), "temperature_2m"),
           Without(Table(HourlyFields, <<100, 101>>), "time"),
           Shortened(Table(HourlyFields, <<100, 101>>), "rain") }

DailyTables ==
    { Table(DailyFields, <<100, 200>>),
      Table(DailyFields, <<100, 125>>),
      WithColumn(Table(DailyFields, <<100, 200>>), "sunrise"),
      Without(Table(DailyFields, <<100, 200>>), "time") }

NotJSON == [json |-> FALSE]

JSON(data) == [json |-> TRUE, data |-> data]

\* the outcomes of requests.get: a transport failure, an error status, a
\* body that is no JSON, and JSON bodies of several shapes
Responses ==
    { [raised |-> TRUE, status_code |-> 0, body |-> NotJSON] }
    \cup { [raised |-> FALSE, status_code |-> sc, body |-> b] :
             sc \in {200, 404, 500},
             b \in { NotJSON,
                     JSON([hourly |-> Table(HourlyFields, <<100, 101>>),
                           daily |-> Table(DailyFields, <<100, 200>>)]) } }
    \cup { [raised |-> FALSE, status_code |-> 200,
            body |-> JSON([hourly |-> h,
                           daily |-> Table(DailyFields, <<100, 200>>)])] :
             h \in HourlyTables }
    \cup { [raised |-> FALSE, status_code |-> 200,
            body |-> JSON([hourly |-> Table(HourlyFields, <<100, 101>>),
                           daily |-> d])] :
             d \in DailyTables }
    \cup { [raised |-> FALSE, status_code |-> 200,
            body |-> JSON([hourly |-> Table(HourlyFields, <<100, 101>>)])],
           [raised |-> FALSE, status_code |-> 200,
            body |-> JSON([daily |-> Table(DailyFields, <<100, 200>>)])] }

\* get_weather's outcome for every answer, tabulated once
Outcome == [b \in BOOLEAN |-> [r \in Responses |-> get_weather(r, b)]]

----------------------------------------------------------------------------
(* The page *)

\* format(x, ".4f") of a degree value: 1e-5 degrees to 1e-4 degrees, to the
\* nearest, ties to even
Fmt4(x) ==
    LET q == x \div 10
        r == x % 10
    IN  IF r < 5 THEN q
        ELSE IF r > 5 THEN q + 1
        ELSE IF q % 2 = 0 THEN q ELSE q + 1

\* title row, introduction, section header and the map
TopOfPage ==
    << [kind |-> "image"],
       [kind |-> "title", text |-> "Open-Meteo Interactive Weather Dashboard"],
       [kind |-> "markdown", text |-> "If you click a location on the map, it will load the hourly weather data for that region."],
       [kind |-> "header", text |-> "1. Select Region (Click the map)"],
       [kind |-> "markdown", text |-> "(select region)"],
       [kind |-> "map", lat |-> 375665, lon |-> 1269780] >>

Loading(c) ==
    [kind |-> "info", text |-> "Loading data for selected location...",
     lat |-> Fmt4(c.lat), lon |-> Fmt4(c.lng)]

Instruction ==
    [kind |-> "info",
     text |-> "Click the map to fetch and display weather data for that location."]

\* the six st.markdown / st.line_chart pairs, in script order
Charts ==
    << [title |-> "Temperature & Apparent Temperature (°C)",
        cols |-> {"Temp (°C)", "Apparent Temp (°C)"}],
       [title |-> "Humidity (%)", cols |-> {"Humidity (%)"}],
       [title |-> "Precipitation Probability (%)", cols |-> {"Precip. Prob. (%)"}],
       [title |-> "Precipitation (mm) & Snowfall (cm)",
        cols |-> {"Precip. (mm)", "Snow (cm)"}],
       [title |-> "Wind Speed (km/h)", cols |-> {"Wind Speed (km/h)"}],
       [title |-> "UV Index", cols |-> {"UV Index"}] >>

\* hourly_df[[...]] raises KeyError when a selected column is missing
Selectable(df, i) == Charts[i].cols \subseteq DOMAIN df.cols

LineChart(df, i) ==
    [kind |-> "line_chart", title |-> Charts[i].title,
     index |-> df.index, data |-> [l \in Charts[i].cols |-> df.cols[l]]]

RECURSIVE ChartsFrom(_, _)
\* charts i.. of the script; an unhandled KeyError ends the script run and
\* Streamlit shows the exception in place of the rest
ChartsFrom(df, i) ==
    IF i > Len(Charts) THEN << >>
    ELSE IF ~Selectable(df, i)
         THEN << [kind |-> "markdown", text |-> Charts[i].title],
                 [kind |-> "exception", text |-> "KeyError"] >>
    ELSE << [kind |-> "markdown", text |-> Charts[i].title], LineChart(df, i) >>
         \o ChartsFrom(df, i + 1)

Aborted(elems) == \E i \in DOMAIN elems : elems[i].kind = "exception"

\* the body of  if hourly_df is not None and daily_df is not None:
Display(c, hdf, ddf) ==
    LET charts == ChartsFrom(hdf, 1) IN
    << [kind |-> "header", text |-> "2. Weather Forecast for",
        lat |-> Fmt4(c.lat), lon |-> Fmt4(c.lng)],
       [kind |-> "subheader", text |-> "Hourly Forecast"] >>
    \o charts
    \o IF Aborted(charts) THEN << >>
       ELSE << [kind |-> "subheader", text |-> "7-Day Daily Forecast"],
               [kind |-> "dataframe", df |-> ddf],
               [kind |-> "subheader", text |-> "Hourly Data Table (Raw)"],
               [kind |-> "expander", text |-> "Click to see all hourly data",
                expanded |-> FALSE, df |-> hdf] >>

----------------------------------------------------------------------------
(* st.cache_data *)

NoEntry == [kind |-> "NoEntry"]

\* variant: a stored failure is not served, the body runs again
CachedOnlySuccess(memo, c) ==
    memo[c] # [kind |-> "NoEntry"] /\ memo[c].value # <<None, None>>

\* a cache hit: an entry exists for exactly these arguments
Cached(memo, c) == memo[c] # NoEntry

\* variant: no memoization at all
StoreNothing(memo, c, out) == memo

\* variant: the value is kept, the elements the call showed are not
StoreValueOnly(memo, c, out) ==
    [memo EXCEPT ![c] = [value |-> out.value, messages |-> << >>]]

\* variant: a call that returned the sentinel is not kept
StoreSuccessOnly(memo, c, out) ==
    IF out.value = <<None, None>> THEN memo ELSE [memo EXCEPT ![c] = out]

\* what the decorator keeps of a call that returned: the value and the
\* elements the call showed, which a hit replays
Store(memo, c, out) == [memo EXCEPT ![c] = out]

----------------------------------------------------------------------------
(* State machine *)

NoInteraction == [last_clicked |-> None]

\* st_folium's return value: no click yet, or the last clicked point
MapData == { NoInteraction } \cup { [last_clicked |-> c] : c \in Coords }

\* map_data and map_data.get('last_clicked')
HasClick(md) == md.last_clicked # None

Init ==
    /\ pc = "map"
    /\ map_data = NoInteraction
    /\ page = << >>
    /\ hourly_df = None
    /\ daily_df = None
    /\ cache = [c \in Coords |-> NoEntry]
    /\ response = None
    /\ requests = 0
    /\ passRequests = 0
    /\ clicked = {}
    /\ firstResult = [c \in Coords |-> [called |-> FALSE]]
    /\ jsonErrorIsRequestException \in BOOLEAN

\* The script up to the map, with st_folium reporting no click: the else
\* branch shows the instruction and the script ends.
NoClick ==
    /\ pc = "map"
    /\ \E md \in MapData :
        /\ ~HasClick(md)
        /\ map_data' = md
    /\ page' = TopOfPage \o << Instruction >>
    /\ pc' = "done"
    /\ UNCHANGED <<hourly_df, daily_df, cache, response, requests, passRequests,
                   clicked, firstResult, jsonErrorIsRequestException>>

\* The script up to the map, with st_folium reporting a click: the status
\* line is shown and get_weather is about to be called.
Click ==
    /\ pc = "map"
    /\ \E md \in MapData :
        /\ HasClick(md)
        /\ map_data' = md
        /\ page' = TopOfPage \o << Loading(md.last_clicked) >>
        /\ clicked' = clicked \cup { md.last_clicked }
    /\ pc' = "fetch"
    /\ UNCHANGED <<hourly_df, daily_df, cache, response, requests, passRequests,
                   firstResult, jsonErrorIsRequestException>>

\* get_weather(lat, lon) answered by st.cache_data: the stored value is
\* returned and the stored elements are shown again; the function body does
\* not run.
CacheHit ==
    /\ pc = "fetch"
    /\ Cached(cache, map_data.last_clicked)
    /\ hourly_df' = cache[map_data.last_clicked].value[1]
    /\ daily_df' = cache[map_data.last_clicked].value[2]
    /\ page' = page \o cache[map_data.last_clicked].messages
    /\ pc' = "render"
    /\ UNCHANGED <<map_data, cache, response, requests, passRequests, clicked,
                   firstResult, jsonErrorIsRequestException>>

\* get_weather(lat, lon) with no entry for these arguments: the body runs,
\* makes its one request, and what it returns is stored.
CacheMiss ==
    /\ pc = "fetch"
    /\ ~Cached(cache, map_data.last_clicked)
    /\ \E r \in Responses :
        LET out == Outcome[jsonErrorIsRequestException][r]
            c == map_data.last_clicked
        IN  /\ response' = r
            /\ hourly_df' = out.value[1]
            /\ daily_df' = out.value[2]
            /\ page' = page \o out.messages
            /\ cache' = Store(cache, c, out)
            /\ firstResult' =
                   IF firstResult[c].called THEN firstResult
                   ELSE [firstResult EXCEPT ![c] = [called |-> TRUE, value |-> out.value]]
    /\ requests' = requests + 1
    /\ passRequests' = passRequests + 1
    /\ pc' = "render"
    /\ UNCHANGED <<map_data, clicked, jsonErrorIsRequestException>>

\* if hourly_df is not None and daily_df is not None: the forecast section
RenderForecast ==
    /\ pc = "render"
    /\ hourly_df # None /\ daily_df # None
    /\ page' = page \o Display(map_data.last_clicked, hourly_df, daily_df)
    /\ pc' = "done"
    /\ UNCHANGED <<map_data, hourly_df, daily_df, cache, response, requests,
                   passRequests, clicked, firstResult, jsonErrorIsRequestException>>

\* the condition is false: the if has no else, the script ends
RenderNothing ==
    /\ pc = "render"
    /\ ~(hourly_df # None /\ daily_df # None)
    /\ pc' = "done"
    /\ UNCHANGED <<map_data, page, hourly_df, daily_df, cache, response, requests,
                   passRequests, clicked, firstResult, jsonErrorIsRequestException>>

\* Streamlit runs the script again from the top on the next interaction.
Rerun ==
    /\ pc = "done"
    /\ pc' = "map"
    /\ map_data' = NoInteraction
    /\ page' = << >>
    /\ hourly_df' = None
    /\ daily_df' = None
    /\ response' = None
    /\ passRequests' = 0
    /\ UNCHANGED <<cache, requests, clicked, firstResult, jsonErrorIsRequestException>>

Next ==
    \/ NoClick
    \/ Click
    \/ CacheHit
    \/ CacheMiss
    \/ RenderForecast
    \/ RenderNothing
    \/ Rerun

Spec == Init /\ [][Next]_vars

----------------------------------------------------------------------------
(* Vocabulary of the properties *)

Elements(p, k) == { i \in DOMAIN p : p[i].kind = k }

ErrorShown(p) == Elements(p, "error") # {}

ForecastShown(p) ==
    \E i \in Elements(p, "header") : p[i].text = "2. Weather Forecast for"

InstructionShown(p) == \E i \in DOMAIN p : p[i] = Instruction

\* charts or tables
DataShown(p) ==
    Elements(p, "line_chart") \cup Elements(p, "dataframe")
        \cup Elements(p, "expander") # {}

\* get_weather has returned in this pass
Returned == pc \in {"render", "done"} /\ HasClick(map_data)

\* get_weather returned in this pass after making its request
Fetched == Returned /\ passRequests = 1 /\ response # None

Sentinel == hourly_df = None /\ daily_df = None

NonDecreasing(seq) == \A i, j \in DOMAIN seq : i < j => seq[i] <= seq[j]

----------------------------------------------------------------------------
(* C1: a second call of get_weather with the identical (lat, lon) returns    *)
(* the first call's result and makes no request: whenever get_weather has    *)
(* returned for a coordinate, its result is the result of the first call     *)
(* with that coordinate, and the number of outbound requests never exceeds   *)
(* the number of distinct coordinates clicked so far.                         *)
C1_Memoized ==
    /\ requests <= Cardinality(clicked)
    /\ Returned =>
        /\ firstResult[map_data.last_clicked].called
        /\ <<hourly_df, daily_df>> = firstResult[map_data.last_clicked].value

\* a pass answered from the cache with a forecast, while another coordinate
\* has been fetched too
C1_Witness ==
    /\ pc = "done" /\ HasClick(map_data)
    /\ passRequests = 0
    /\ ~Sentinel
    /\ requests = NumCoords

----------------------------------------------------------------------------
(* C2: when the request fails at the transport level or returns a non-2xx   *)
(* status, get_weather shows an error message and returns (None, None); the *)
(* pass ends without an exception and without any chart or table.           *)
RequestFailed(r) == r.raised \/ r.status_code < 200 \/ r.status_code > 299

----------------------------------------------------------------------------
(* C3: when the request succeeds but the body does not parse, lacks its      *)
(* 'hourly', 'daily' or 'time' key, or holds a timestamp that does not       *)
(* parse, get_weather shows the processing error message, which is not the   *)
(* message of a failed request, and returns (None, None).                    *)
BadTable(data, k) ==
    \/ k \notin DOMAIN data
    \/ "time" \notin DOMAIN data[k]
    \/ \E i \in DOMAIN data[k]["time"] : ~Parsable(data[k]["time"][i])

Malformed(r) ==
    /\ ~RequestFailed(r)
    /\ \/ ~r.body.json
       \/ BadTable(r.body.data, "hourly")
       \/ BadTable(r.body.data, "daily")

C3_DistinctProcessingError ==
    (Fetched /\ Malformed(response)) =>
        /\ Sentinel
        /\ \A i \in Elements(page, "error") :
               page[i].text # "Error fetching data from API"
        /\ \E i \in Elements(page, "error") :
               page[i].text = "An error occurred while processing data"

----------------------------------------------------------------------------
(* C4 as stated: in every pass where get_weather returned (None, None)      *)
(* after a click, the page shows the instruction "Click the map to fetch    *)
(* and display weather data for that location" and nothing further.         *)
C4_SentinelShowsInstruction ==
    (pc = "done" /\ HasClick(map_data) /\ Sentinel) =>
        /\ InstructionShown(page)
        /\ ~DataShown(page)

(* C4 as amended: the instruction is shown exactly in the passes without a  *)
(* click; a pass where get_weather returned (None, None) after a click      *)
(* shows the loading status line followed by get_weather's one error        *)
(* message, and nothing further.                                            *)
C4_SentinelShowsError ==
    pc = "done" =>
        /\ InstructionShown(page) <=> ~HasClick(map_data)
        /\ (HasClick(map_data) /\ Sentinel) =>
            /\ Len(page) = Len(TopOfPage) + 2
            /\ page[Len(TopOfPage) + 1] = Loading(map_data.last_clicked)
            /\ page[Len(page)].kind = "error"
            /\ ~DataShown(page)

\* a finished pass that was answered from the cache with the sentinel
C4_Witness ==
    /\ pc = "done" /\ HasClick(map_data) /\ Sentinel
    /\ passRequests = 0
    /\ ErrorShown(page) /\ ~InstructionShown(page)

----------------------------------------------------------------------------
(* The page states of the specification, read off the script position and   *)
(* the page.                                                                 *)
PageState ==
    IF pc = "map" \/ ~HasClick(map_data) THEN "AWAITING_CLICK"
    ELSE IF pc \in {"fetch", "render"} THEN "FETCHING"
    ELSE IF ForecastShown(page) /\ ~ErrorShown(page) THEN "RENDERED"
    ELSE IF ErrorShown(page) /\ ~ForecastShown(page) THEN "ERROR"
    ELSE "UNDEFINED"

----------------------------------------------------------------------------
(* C6: in a pass with a click where get_weather returns two tables, the     *)
(* page shows the status line with the coordinate to 4 decimal places, then *)
(* exactly six line charts, then the daily table, then the collapsed hourly *)
(* table, and no error message; and at the end of every pass the charts are *)
(* shown if and only if both returned tables are not None, never together   *)
(* with an error message.                                                   *)
Shows4Decimals(e, c) ==
    /\ 10 * e.lat - c.lat \in -5..5
    /\ 10 * e.lon - c.lng \in -5..5

C6_ForecastLayout ==
    pc = "done" =>
        /\ (HasClick(map_data) /\ ~Sentinel) =>
            /\ \E i \in Elements(page, "info") :
                   Shows4Decimals(page[i], map_data.last_clicked)
            /\ \E i \in Elements(page, "header") :
                   /\ page[i].text = "2. Weather Forecast for"
                   /\ Shows4Decimals(page[i], map_data.last_clicked)
            /\ Cardinality(Elements(page, "line_chart")) = 6
            /\ Cardinality(Elements(page, "dataframe")) = 1
            /\ Cardinality(Elements(page, "expander")) = 1
            /\ \A i \in Elements(page, "line_chart"),
                  j \in Elements(page, "dataframe"),
                  k \in Elements(page, "expander") : i < j /\ j < k
            /\ \A k \in Elements(page, "expander") : ~page[k].expanded
            /\ ~ErrorShown(page)
            /\ Elements(page, "exception") = {}
        /\ (Elements(page, "line_chart") # {}) <=> (HasClick(map_data) /\ ~Sentinel)
        /\ ~(ErrorShown(page) /\ Elements(page, "line_chart") # {})

----------------------------------------------------------------------------
(* C7 as stated: for every successful response the hourly table has as many *)
(* rows as the response's hourly 'time' column has timestamps, every row    *)
(* carries the values at the same index of the source columns, and the rows *)
(* are sorted ascending by time.                                            *)
SourceHourly == response.body.data["hourly"]

RowsAligned ==
    /\ Len(hourly_df.index) = Len(SourceHourly["time"])
    /\ \A i, j \in DOMAIN hourly_df.index :
           (SourceHourly["time"][i] < SourceHourly["time"][j])
               <=> (hourly_df.index[i] < hourly_df.index[j])
    /\ \A f \in DOMAIN SourceHourly \ {"time"} :
           \E l \in DOMAIN hourly_df.cols : hourly_df.cols[l] = SourceHourly[f]
    /\ \A l \in DOMAIN hourly_df.cols :
           \E f \in DOMAIN SourceHourly \ {"time"} : hourly_df.cols[l] = SourceHourly[f]

----------------------------------------------------------------------------
(* C8: every field of the 'hourly' query parameter has exactly one entry in *)
(* the hourly rename map, every field of the 'daily' query parameter has    *)
(* exactly one entry in the daily rename map, the labels of one map are     *)
(* pairwise distinct, in every table returned the column of a field is      *)
(* under the label of that one entry, and a response column that is not in  *)
(* the map is kept under its own name.                                       *)
TotalAndDistinct(fieldSeq, mapping) ==
    /\ \A f \in Range(fieldSeq) : Cardinality(Entries(mapping, f)) = 1
    /\ \A i, j \in DOMAIN mapping : i # j => mapping[i][2] # mapping[j][2]

ColumnsKept(df, tbl, fieldSeq, mapping) ==
    /\ Cardinality(DOMAIN df.cols) = Cardinality(DOMAIN tbl \ {"time"})
    /\ \A f \in DOMAIN tbl \ {"time"} :
           IF f \in Range(fieldSeq)
           THEN \E i \in DOMAIN mapping :
                    /\ mapping[i][1] = f
                    /\ mapping[i][2] \in DOMAIN df.cols
                    /\ df.cols[mapping[i][2]] = tbl[f]
           ELSE f \in DOMAIN df.cols /\ df.cols[f] = tbl[f]

\* the part of C8 that is about the two dict literals alone
RenameMapsTotal ==
    /\ TotalAndDistinct(HourlyFields, HourlyRename)
    /\ TotalAndDistinct(DailyFields, DailyRename)

C8_RenamingTotalAndStable ==
    /\ RenameMapsTotal
    /\ (Fetched /\ ~Sentinel) =>
        /\ ColumnsKept(hourly_df, response.body.data["hourly"],
                       HourlyFields, HourlyRename)
        /\ ColumnsKept(daily_df, response.body.data["daily"],
                       DailyFields, DailyRename)

\* a fetched hourly table that carries a column the map does not name
C8_Witness ==
    /\ Fetched /\ ~Sentinel
    /\ "visibility" \in DOMAIN hourly_df.cols
    /\ "Wind Dir (°)" \in DOMAIN hourly_df.cols

----------------------------------------------------------------------------
(* C9: every pass makes at most one outbound request: none when there is no *)
(* click or when the clicked coordinate has an entry in the cache, exactly  *)
(* one otherwise; after get_weather has returned, with a failure or not, no *)
(* further request is made in the pass; and the forecast section is only    *)
(* written by the step that follows get_weather's return.                   *)
C9_OneRequestPerPass ==
    [][ /\ passRequests' <= 1
        /\ (pc = "map" /\ ~HasClick(map_data')) =>
               pc' = "done" /\ passRequests' = 0 /\ requests' = requests
        /\ pc = "fetch" =>
               /\ passRequests' =
                      IF cache[map_data.last_clicked] # NoEntry THEN 0 ELSE 1
               /\ requests' = requests + passRequests'
               /\ pc' = "render"
        /\ pc \in {"map", "render", "done"} => requests' = requests
        /\ pc = "render" => passRequests' = passRequests
        /\ (ForecastShown(page') /\ ~ForecastShown(page)) => pc = "render"
        /\ (Len(page') > Len(page) /\ pc # "map") => pc \in {"fetch", "render"}
      ]_vars

\* a finished pass whose one request failed
C9_Witness ==
    /\ pc = "done" /\ Fetched
    /\ RequestFailed(response)
    /\ requests = NumCoords

----------------------------------------------------------------------------
(* C10: a failed fetch is memoized like a successful one: once the first    *)
(* call of get_weather for a coordinate has returned (None, None), every    *)
(* later step keeps that entry, a later pass for that coordinate makes no   *)
(* request and gets (None, None), and the page never reaches RENDERED for   *)
(* it, whatever the API would answer.                                       *)
FailedBefore(c) ==
    firstResult[c].called /\ firstResult[c].value = <<None, None>>

C10_FailureMemoized ==
    [][ \A c \in Coords :
          FailedBefore(c) =>
              /\ cache'[c] # NoEntry
              /\ cache'[c].value = <<None, None>>
              /\ map_data'.last_clicked = c =>
                     /\ requests' = requests
                     /\ hourly_df' = None /\ daily_df' = None
                     /\ PageState' # "RENDERED"
      ]_vars

\* a later pass for a coordinate whose first fetch failed, answered from the
\* cache
C10_Witness ==
    /\ pc = "done" /\ HasClick(map_data)
    /\ FailedBefore(map_data.last_clicked)
    /\ passRequests = 0
    /\ PageState = "ERROR"

====
